---- MODULE Spec2Model ----
(***************************************************************************)
(* Model of bevy_boa_reflect: the two recursive converters between bevy's  *)
(* reflective values and boa's JsValue (src/src/into.rs, src/src/from.rs). *)
(*                                                                         *)
(* Host (reflective) values are records tagged by `kind` (the ReflectRef   *)
(* variant); scripting values are records tagged by `tag` (the JsValue     *)
(* variant), objects further by `class`.  Floats are counted in halves     *)
(* (v = 3 is 1.5), so that an integer i is the float 2*i; an f32 keeps a   *)
(* 24 bit significand.  Strings that are values are sequences of code      *)
(* units; field names, property keys and error messages are atoms.         *)
(***************************************************************************)
EXTENDS Integers, Sequences, FiniteSets, TLC

VARIABLES pc, op, input, origin, pos, acc, reads, result

vars == <<pc, op, input, origin, pos, acc, reads, result>>

(***************************************************************************)
(* Bounds of the model.                                                    *)
(***************************************************************************)
\* longest field list / element list / entry list of a generated composite
MaxLen == 2
\* iterator steps a Set loop is followed past the exhaustion of its members
MaxExtra == 2

(***************************************************************************)
(* Results: JsResult<T>.  NoReturn stands for a call that never returns.   *)
(***************************************************************************)
Ok(x) == [st |-> "Ok", val |-> x]
Err(m) == [st |-> "Err", err |-> m]
NoReturn == [st |-> "NoReturn"]
Pending == [st |-> "Pending"]
Absent == [kind |-> "Absent"]

Some(x) == [some |-> TRUE, val |-> x]
None == [some |-> FALSE]

(***************************************************************************)
(* Numbers.                                                                *)
(***************************************************************************)
Abs(n) == IF n < 0 THEN -n ELSE n

\* width of the f32 significand
F32Significand == 24

RECURSIVE Pow2(_)
Pow2(k) == IF k = 0 THEN 1 ELSE 2 * Pow2(k - 1)

\* spacing of the f32 grid at magnitude a (a counted in any power-of-two unit)
RECURSIVE Ulp(_)
Ulp(a) == IF a < Pow2(F32Significand) THEN 1 ELSE 2 * Ulp(a \div 2)

\* mutant: the narrowing goes through an integer and drops the fraction
as_f32_via_integer(n) == IF n < 0 THEN -(2 * (Abs(n) \div 2)) ELSE 2 * (n \div 2)

\* `x as f32`: round to the nearest f32, ties to the even significand
as_f32(n) ==
    LET a == Abs(n)
        q == Ulp(a)
        lo == (a \div q) * q
        r == a - lo
        up == (2 * r > q) \/ (2 * r = q /\ (lo \div q) % 2 = 1)
        m == IF up THEN lo + q ELSE lo
    IN  IF n < 0 THEN -m ELSE m

\* mutant: the integer is widened exactly, as `i as f64` would
i32_as_f32_exact(i) == 2 * i

\* `i as f32` for an i32: the integer i is 2*i halves
i32_as_f32(i) == as_f32(2 * i)

\* `x as f64` for an f32: every f32 is an f64, the value is kept
f32_as_f64(x) == x

\* JsBigInt: an unbounded integer, kept as sign and decimal magnitude
RECURSIVE Digits(_)
Digits(n) == IF n < 10 THEN <<n>> ELSE Append(Digits(n \div 10), n % 10)

\* mutant: the sign is lost, as by a cast through u64
BigIntFrom_unsigned(n) == [neg |-> FALSE, mag |-> Digits(Abs(n))]

BigIntFrom(n) == [neg |-> n < 0, mag |-> Digits(Abs(n))]

DigitChar(d) == <<"0", "1", "2", "3", "4", "5", "6", "7", "8", "9">>[d + 1]

\* JsBigInt's Display: decimal text, a leading "-" when negative
bigint_to_string(b) ==
    (IF b.neg THEN <<"-">> ELSE <<>>) \o [i \in 1..Len(b.mag) |-> DigitChar(b.mag[i])]

(***************************************************************************)
(* Strings.  A Rust String is a sequence of chars; a JsString a sequence   *)
(* of UTF-16 code units, each a char or an unpaired surrogate.             *)
(***************************************************************************)
LoneSurrogate == "<D800>"

\* JsString::from(String): every char becomes its code unit
JsStringFrom(s) == s

EscapeUnit(u) == IF u = LoneSurrogate THEN <<"\\", "u", "D", "8", "0", "0">> ELSE <<u>>

\* JsString::to_std_string_escaped: an unpaired surrogate becomes \uXXXX
RECURSIVE to_std_string_escaped(_)
to_std_string_escaped(s) ==
    IF s = <<>> THEN <<>> ELSE EscapeUnit(Head(s)) \o to_std_string_escaped(Tail(s))

(***************************************************************************)
(* Scripting values.                                                       *)
(***************************************************************************)
JsNull == [tag |-> "Null"]
JsUndefined == [tag |-> "Undefined"]
JsBoolean(b) == [tag |-> "Boolean", b |-> b]
JsInteger(i) == [tag |-> "Integer", n |-> i]
JsRational(f) == [tag |-> "Rational", n |-> f]
JsStringV(s) == [tag |-> "String", s |-> s]
JsBigIntV(b) == [tag |-> "BigInt", big |-> b]
JsSymbol(d) == [tag |-> "Symbol", desc |-> d]
JsArrayObj(items) == [tag |-> "Object", class |-> "Array", items |-> items]
JsMapObj(entries) == [tag |-> "Object", class |-> "Map", entries |-> entries]
JsSetObj(members) == [tag |-> "Object", class |-> "Set", members |-> members]
JsOrdinary(props) == [tag |-> "Object", class |-> "Ordinary", props |-> props]

is_null_or_undefined(j) == j.tag \in {"Null", "Undefined"}

(***************************************************************************)
(* Host values.                                                            *)
(***************************************************************************)
\* primitives: the payload is b (bool), n (integers; floats in halves) or
\* s (text), by the concrete type ty
BoolV(b) == [kind |-> "Value", ty |-> "bool", b |-> b]
NumV(ty, n) == [kind |-> "Value", ty |-> ty, n |-> n]
TextV(ty, s) == [kind |-> "Value", ty |-> ty, s |-> s]
Struct(fields) == [kind |-> "Struct", fields |-> fields]
TupleStruct(items) == [kind |-> "TupleStruct", items |-> items]
Tuple(items) == [kind |-> "Tuple", items |-> items]
List(items) == [kind |-> "List", items |-> items]
Array(items) == [kind |-> "Array", items |-> items]
Map(entries) == [kind |-> "Map", entries |-> entries]
Enum(variant, fields) == [kind |-> "Enum", variant |-> variant, fields |-> fields]
\* the unit value (): bevy reflects it as the empty tuple
Unit == Tuple(<<>>)

(***************************************************************************)
(* Scripting-engine operations used by the converters.                     *)
(***************************************************************************)
IsNumber(j) == j.tag \in {"Integer", "Rational"}
NumHalves(j) == IF j.tag = "Integer" THEN 2 * j.n ELSE j.n

\* SameValueZero, the key equality of the scripting Map.  Every object a
\* conversion builds is freshly allocated, so an object key equals no other.
SameValueZero(a, b) ==
    IF a.tag = "Object" \/ b.tag = "Object" THEN FALSE
    ELSE IF IsNumber(a) /\ IsNumber(b) THEN NumHalves(a) = NumHalves(b)
    ELSE a = b

\* JsMap::set: replace the value of an equal key in place, else append
MapSet(entries, k, v) ==
    IF \E i \in 1..Len(entries) : SameValueZero(entries[i][1], k)
    THEN [i \in 1..Len(entries) |->
             IF SameValueZero(entries[i][1], k) THEN <<entries[i][1], v>> ELSE entries[i]]
    ELSE Append(entries, <<k, v>>)

\* mutant: a new property is put in front of the others
property_in_front(props, k, v) == <<[key |-> k, value |-> v]>> \o props

\* ObjectInitializer::property: define an own property, all attributes set;
\* a key that is already there keeps its place and takes the new value
property(props, k, v) ==
    IF \E i \in 1..Len(props) : props[i].key = k
    THEN [i \in 1..Len(props) |->
             IF props[i].key = k THEN [key |-> k, value |-> v] ELSE props[i]]
    ELSE Append(props, [key |-> k, value |-> v])

RECURSIVE FoldProperties(_, _)
FoldProperties(props, pairs) ==
    IF pairs = <<>> THEN props
    ELSE FoldProperties(property(props, Head(pairs)[1], Head(pairs)[2]), Tail(pairs))

(***************************************************************************)
(* Outbound converter (into.rs).                                           *)
(***************************************************************************)
RECURSIVE reflect_to_js_value(_)
RECURSIVE reflect_to_js_object(_)
RECURSIVE reflect_tuple_struct_to_js_array(_)
RECURSIVE reflect_tuple_to_js_array(_)
RECURSIVE reflect_list_to_js_array(_)
RECURSIVE reflect_array_to_js_array(_)
RECURSIVE reflect_map_to_js_map(_)
RECURSIVE reflect_enum_to_js_value(_)
RECURSIVE PushAll(_, _)
RECURSIVE CollectStructFields(_, _, _)
RECURSIVE CollectEnumFields(_, _)
RECURSIVE ArrayLoop(_, _, _)
RECURSIVE MapSetAll(_, _)

\* the coercion table; try_as_reflect yields the value for every concrete type
primitive_to_js_value(value) ==
    LET ty == value.ty
    IN  Ok(CASE ty = "bool" -> JsBoolean(value.b)
             [] ty = "i8" -> JsInteger(value.n)
             [] ty = "i16" -> JsInteger(value.n)
             [] ty = "i32" -> JsInteger(value.n)
             [] ty = "i64" -> JsBigIntV(BigIntFrom(value.n))
             [] ty = "isize" -> JsBigIntV(BigIntFrom(value.n))
             [] ty = "u8" -> JsInteger(value.n)
             [] ty = "u16" -> JsInteger(value.n)
             [] ty = "u32" -> JsBigIntV(BigIntFrom(value.n))
             [] ty = "u64" -> JsBigIntV(BigIntFrom(value.n))
             [] ty = "usize" -> JsBigIntV(BigIntFrom(value.n))
             [] ty = "f32" -> JsRational(f32_as_f64(value.n))
             [] ty = "f64" -> JsRational(value.n)
             [] ty = "String" -> JsStringV(JsStringFrom(value.s))
             [] ty = "str" -> JsStringV(JsStringFrom(value.s))
             [] OTHER -> JsNull)

\* the match on value.reflect_ref()
reflect_to_js_value(value) ==
    CASE value.kind = "Struct" -> reflect_to_js_object(value)
      [] value.kind = "TupleStruct" -> reflect_tuple_struct_to_js_array(value)
      [] value.kind = "Tuple" -> reflect_tuple_to_js_array(value)
      [] value.kind = "List" -> reflect_list_to_js_array(value)
      [] value.kind = "Array" -> reflect_array_to_js_array(value)
      [] value.kind = "Map" -> reflect_map_to_js_map(value)
      [] value.kind = "Enum" -> reflect_enum_to_js_value(value)
      [] value.kind = "Value" -> primitive_to_js_value(value)

\* the match on field.reflect_ref() written out inside reflect_to_js_object
FieldToJs(field) ==
    CASE field.kind = "Struct" -> reflect_to_js_object(field)
      [] field.kind = "TupleStruct" -> reflect_tuple_struct_to_js_array(field)
      [] field.kind = "Tuple" -> reflect_tuple_to_js_array(field)
      [] field.kind = "List" -> reflect_list_to_js_array(field)
      [] field.kind = "Array" -> reflect_array_to_js_array(field)
      [] field.kind = "Map" -> reflect_map_to_js_map(field)
      [] field.kind = "Enum" -> reflect_enum_to_js_value(field)
      [] field.kind = "Value" -> primitive_to_js_value(field)

\* Struct::name_at(idx), idx counted from 0
name_at(s, idx) ==
    IF idx < Len(s.fields) THEN Some(s.fields[idx + 1].name) ELSE None

\* iter_fields().enumerate().map(..).collect::<JsResult<Vec<_>>>(): the first
\* error ends the collection
CollectStructFields(s, idx, out) ==
    IF idx = Len(s.fields) THEN Ok(out)
    ELSE LET r == FieldToJs(s.fields[idx + 1].value)
             n == name_at(s, idx)
         IN  IF r.st # "Ok" THEN r
             ELSE IF ~n.some THEN Err("Could not read field")
             ELSE CollectStructFields(s, idx + 1, Append(out, <<n.val, r.val>>))

reflect_to_js_object(reflect_struct) ==
    LET c == CollectStructFields(reflect_struct, 0, <<>>)
    IN  IF c.st # "Ok" THEN c ELSE Ok(JsOrdinary(FoldProperties(<<>>, c.val)))

\* `for x in ..  { array.push(reflect_to_js_value(x)?) }`
PushAll(items, out) ==
    IF items = <<>> THEN Ok(JsArrayObj(out))
    ELSE LET r == reflect_to_js_value(Head(items))
         IN  IF r.st # "Ok" THEN r ELSE PushAll(Tail(items), Append(out, r.val))

reflect_tuple_struct_to_js_array(tuple) == PushAll(tuple.items, <<>>)

reflect_tuple_to_js_array(tuple) == PushAll(tuple.items, <<>>)

reflect_list_to_js_array(list) == PushAll(list.items, <<>>)

\* Array::get(i), i counted from 0
array_get(array, i) ==
    IF i < Len(array.items) THEN Some(array.items[i + 1]) ELSE None

\* one turn of `for i in 0..array.len()`: get(i).unwrap(), convert, push
ArrayBody(array, i) ==
    LET item == array_get(array, i)
    IN  IF ~item.some THEN Err("panic: unwrap on None") ELSE reflect_to_js_value(item.val)

\* mutant: the range is 0..=len
ArrayContinue_inclusive(array, i) == i <= Len(array.items)

\* the index range of the loop: i runs while ArrayContinue
ArrayContinue(array, i) == i < Len(array.items)

ArrayLoop(array, i, out) ==
    IF ~ArrayContinue(array, i) THEN Ok(JsArrayObj(out))
    ELSE LET r == ArrayBody(array, i)
         IN  IF r.st # "Ok" THEN r ELSE ArrayLoop(array, i + 1, Append(out, r.val))

reflect_array_to_js_array(array) == ArrayLoop(array, 0, <<>>)

MapSetAll(entries, out) ==
    IF entries = <<>> THEN Ok(JsMapObj(out))
    ELSE LET k == reflect_to_js_value(Head(entries)[1])
         IN  IF k.st # "Ok" THEN k
             ELSE LET v == reflect_to_js_value(Head(entries)[2])
                  IN  IF v.st # "Ok" THEN v
                      ELSE MapSetAll(Tail(entries), MapSet(out, k.val, v.val))

reflect_map_to_js_map(map) == MapSetAll(map.entries, <<>>)

\* iter_fields().map(..).collect(): the name is read before the value
CollectEnumFields(fields, out) ==
    IF fields = <<>> THEN Ok(out)
    ELSE LET f == Head(fields)
         IN  IF ~f.fname.some THEN Err("Could not read field name")
             ELSE LET r == reflect_to_js_value(f.value)
                  IN  IF r.st # "Ok" THEN r
                      ELSE CollectEnumFields(Tail(fields), Append(out, <<f.fname.val, r.val>>))

\* mutant: `__variant` is defined before the payload fields
reflect_enum_variant_first(enum_value) ==
    LET c == CollectEnumFields(enum_value.fields, <<>>)
    IN  IF c.st # "Ok" THEN c
        ELSE Ok(JsOrdinary(FoldProperties(
                 property(<<>>, "__variant", JsStringV(JsStringFrom(enum_value.variant))),
                 c.val)))

reflect_enum_to_js_value(enum_value) ==
    LET c == CollectEnumFields(enum_value.fields, <<>>)
    IN  IF c.st # "Ok" THEN c
        ELSE Ok(JsOrdinary(property(FoldProperties(<<>>, c.val), "__variant",
                                    JsStringV(JsStringFrom(enum_value.variant)))))

(***************************************************************************)
(* Inbound converter (from.rs).                                            *)
(***************************************************************************)
DynamicList(items) == List(items)
DynamicMap(entries) == Map(entries)
DynamicStruct(fields) == Struct(fields)

\* DynamicStruct::insert_boxed: a name that is already there is replaced
struct_insert_boxed(fields, name, value) ==
    IF \E i \in 1..Len(fields) : fields[i].name = name
    THEN [i \in 1..Len(fields) |->
             IF fields[i].name = name THEN [name |-> name, value |-> value] ELSE fields[i]]
    ELSE Append(fields, [name |-> name, value |-> value])

\* DynamicMap::insert_boxed: an equal key is replaced
map_insert_boxed(entries, k, v) ==
    IF \E i \in 1..Len(entries) : entries[i][1] = k
    THEN [i \in 1..Len(entries) |-> IF entries[i][1] = k THEN <<k, v>> ELSE entries[i]]
    ELSE Append(entries, <<k, v>>)

\* what the engine's iterator `next` returns: the iterator result object
\* { value, done }, never the bare element
IterResult(value, done) ==
    JsOrdinary(<<[key |-> "value", value |-> value], [key |-> "done", value |-> JsBoolean(done)]>>)

\* JsSetIterator::next after n earlier calls, over the members in order
SetIteratorNext(members, n) ==
    IF n < Len(members) THEN IterResult(members[n + 1], FALSE)
    ELSE IterResult(JsUndefined, TRUE)

\* JsMapIterator::next after n earlier calls: the entry is the array [key, value]
MapIteratorNext(entries, n) ==
    IF n < Len(entries)
    THEN IterResult(JsArrayObj(<<entries[n + 1][1], entries[n + 1][2]>>), FALSE)
    ELSE IterResult(JsUndefined, TRUE)

\* JsArray::from_object: only an Array-class object is accepted
JsArray_from_object(obj) ==
    IF obj.class = "Array" THEN Ok(obj) ELSE Err("object is not an Array")

\* JsArray::get(i): the element, undefined past the end
js_array_get(array, i) ==
    IF i < Len(array.items) THEN array.items[i + 1] ELSE JsUndefined

\* JsObject::get(key) on own data properties: the value, undefined if absent
js_object_get(obj, key) ==
    IF obj.class = "Ordinary" /\ \E i \in 1..Len(obj.props) : obj.props[i].key = key
    THEN (CHOOSE p \in {obj.props[i] : i \in 1..Len(obj.props)} : p.key = key).value
    ELSE JsUndefined

RECURSIVE js_value_to_reflect(_)
RECURSIVE js_array_to_reflect(_)
RECURSIVE js_map_to_reflect(_)
RECURSIVE js_set_to_reflect(_)
RECURSIVE js_object_to_reflect(_)
RECURSIVE ListLoop(_, _, _)
RECURSIVE MapLoop(_, _, _)
RECURSIVE SetLoop(_, _, _)
RECURSIVE ObjectLoop(_, _, _)

\* the match on the JsValue tag, then on the object's class
js_value_to_reflect(value) ==
    CASE value.tag \in {"Null", "Undefined"} -> Ok(Unit)
      [] value.tag = "Boolean" -> Ok(BoolV(value.b))
      [] value.tag = "Integer" -> Ok(NumV("f32", i32_as_f32(value.n)))
      [] value.tag = "Rational" -> Ok(NumV("f32", as_f32(value.n)))
      [] value.tag = "String" -> Ok(TextV("String", to_std_string_escaped(value.s)))
      [] value.tag = "Object" ->
            IF value.class = "Array" THEN js_array_to_reflect(value)
            ELSE IF value.class = "Map" THEN js_map_to_reflect(value)
            ELSE IF value.class = "Set" THEN js_set_to_reflect(value)
            ELSE js_object_to_reflect(value)
      [] value.tag = "Symbol" -> Err("Symbol conversion not supported")
      [] value.tag = "BigInt" -> Ok(TextV("String", bigint_to_string(value.big)))

ListLoop(array, i, dynamic_list) ==
    IF i = Len(array.items) THEN Ok(DynamicList(dynamic_list))
    ELSE LET r == js_value_to_reflect(js_array_get(array, i))
         IN  IF r.st # "Ok" THEN r ELSE ListLoop(array, i + 1, Append(dynamic_list, r.val))

js_array_to_reflect(array) == ListLoop(array, 0, <<>>)

\* the body of `while let entry = entries.next(ctx)?`: the outcome of one
\* turn, Ok carrying the dynamic map after the insert
MapBody(map, n, dynamic_map) ==
    LET entry == JsArray_from_object(MapIteratorNext(map.entries, n))
    IN  IF entry.st # "Ok" THEN entry
        ELSE LET k == js_value_to_reflect(js_array_get(entry.val, 0))
             IN  IF k.st # "Ok" THEN k
                 ELSE LET v == js_value_to_reflect(js_array_get(entry.val, 1))
                      IN  IF v.st # "Ok" THEN v
                          ELSE Ok(map_insert_boxed(dynamic_map, k.val, v.val))

\* the body of `while let value = values.next(ctx)?`: Ok carries the list
\* after the push
SetBody(set, n, dynamic_list) ==
    LET r == js_value_to_reflect(SetIteratorNext(set.members, n))
    IN  IF r.st # "Ok" THEN r ELSE Ok(Append(dynamic_list, r.val))

\* `while let x = ..` matches every value: the loop is left only by `?`.
\* Once the iterator is exhausted every further turn is the same turn, so a
\* turn that succeeds there is repeated without end.
MapLoop(map, n, dynamic_map) ==
    LET r == MapBody(map, n, dynamic_map)
    IN  IF r.st # "Ok" THEN r
        ELSE IF n >= Len(map.entries) THEN NoReturn
        ELSE MapLoop(map, n + 1, r.val)

js_map_to_reflect(map) == MapLoop(map, 0, <<>>)

SetLoop(set, n, dynamic_list) ==
    LET r == SetBody(set, n, dynamic_list)
    IN  IF r.st # "Ok" THEN r
        ELSE IF n >= Len(set.members) THEN NoReturn
        ELSE SetLoop(set, n + 1, r.val)

js_set_to_reflect(set) == SetLoop(set, 0, <<>>)

\* `for key in obj.own_property_keys(ctx)?`
ObjectLoop(obj, i, dynamic_struct) ==
    IF i = Len(obj.props) THEN Ok(dynamic_struct)
    ELSE LET key == obj.props[i + 1].key
             r == js_value_to_reflect(js_object_get(obj, key))
         IN  IF r.st # "Ok" THEN r
             ELSE ObjectLoop(obj, i + 1, struct_insert_boxed(dynamic_struct, key, r.val))

\* the properties are converted first, `__variant` is looked at afterwards
js_object_to_reflect(obj) ==
    LET fields == ObjectLoop(obj, 0, <<>>)
    IN  IF fields.st # "Ok" THEN fields
        ELSE IF ~is_null_or_undefined(js_object_get(obj, "__variant"))
             THEN Err("Enums are not supported")
             ELSE Ok(DynamicStruct(fields.val))

(***************************************************************************)
(* The values the converters are run on.                                   *)
(***************************************************************************)
SeqsUpTo(S, n) == UNION {[1..m -> S] : m \in 0..n}

InjSeqsUpTo(S, n) == {s \in SeqsUpTo(S, n) : \A i, j \in 1..Len(s) : i # j => s[i] # s[j]}

\* pairs of an injective sequence over A and a sequence over B of one length
Zips(A, B, n) == {p \in InjSeqsUpTo(A, n) \X SeqsUpTo(B, n) : Len(p[1]) = Len(p[2])}

Str(s) == TextV("String", s)
I32(i) == NumV("i32", i)
Char(c) == TextV("char", <<c>>)

HostPrimitives ==
    {BoolV(TRUE), BoolV(FALSE),
     NumV("i8", -1), NumV("i16", 300), I32(1), I32(2), I32(-7), I32(16777217),
     NumV("i64", -5), NumV("i64", 1234567890), NumV("isize", 4),
     NumV("u8", 255), NumV("u16", 9), NumV("u32", 7), NumV("u64", 120), NumV("usize", 0),
     NumV("f32", 1), NumV("f32", -4), NumV("f32", 33554432),
     NumV("f64", 1), NumV("f64", 3), NumV("f64", 33554433), NumV("f64", -67108865),
     Str(<<>>), Str(<<"a">>), Str(<<"a", "b">>), TextV("str", <<"h", "i">>),
     Char("q"), Char("r"), NumV("u128", 1)}

\* Option::Some(1): a tuple variant, its payload field has no name
SomeOne == Enum(<<"S", "o", "m", "e">>, <<[fname |-> None, value |-> I32(1)]>>)
Point == Struct(<<[name |-> "x", value |-> I32(1)], [name |-> "y", value |-> NumV("f32", 3)]>>)
Nested == List(<<BoolV(TRUE), Array(<<I32(2), Tuple(<<Str(<<"a">>)>>)>>)>>)

HostElems ==
    {I32(1), Str(<<"a">>), Char("q"), NumV("f64", 33554433), SomeOne, Point, Nested}

FieldNames == {"x", "y", "__variant"}

Structs ==
    {Struct([i \in 1..Len(p[1]) |-> [name |-> p[1][i], value |-> p[2][i]]]) :
        p \in Zips(FieldNames, HostElems, MaxLen)}

StructVariants ==
    {Enum(<<"F", "o", "o">>, [i \in 1..Len(p[1]) |-> [fname |-> Some(p[1][i]), value |-> p[2][i]]]) :
        p \in Zips(FieldNames, HostElems, MaxLen)}

TupleVariants ==
    {Enum(<<"B", "a", "r">>, [i \in 1..Len(vs) |-> [fname |-> None, value |-> vs[i]]]) :
        vs \in SeqsUpTo(HostElems, MaxLen) \ {<<>>}}

HostSequences ==
    UNION {{TupleStruct(vs), Tuple(vs), List(vs), Array(vs)} : vs \in SeqsUpTo(HostElems, MaxLen)}

\* a host map has keys of one type, pairwise distinct
KeyFamilies ==
    {{Str(<<"a">>), Str(<<"b">>), Str(<<"a", "b">>)},
     {I32(1), I32(2), I32(-7)},
     {Char("q"), Char("r"), Char("s")},
     {Point, Struct(<<>>), Struct(<<[name |-> "x", value |-> I32(1)]>>)}}

MapValues == {I32(1), I32(2), I32(16777217), Point}

HostMaps ==
    UNION {{Map([i \in 1..Len(p[1]) |-> <<p[1][i], p[2][i]>>]) : p \in Zips(F, MapValues, MaxLen)} :
              F \in KeyFamilies}

HostInputs ==
    HostPrimitives \cup Structs \cup StructVariants \cup TupleVariants \cup HostSequences
        \cup HostMaps

BigText == [neg |-> FALSE,
            mag |-> <<1, 2, 3, 4, 5, 6, 7, 8, 9, 0, 1, 2, 3, 4, 5, 6, 7, 8, 9, 0,
                      1, 2, 3, 4, 5, 6, 7, 8, 9, 0>>]

JsPrimitives ==
    {JsNull, JsUndefined, JsBoolean(TRUE), JsBoolean(FALSE),
     JsInteger(0), JsInteger(5), JsInteger(-3), JsInteger(16777217),
     JsRational(1), JsRational(6), JsRational(33554433), JsRational(-4),
     JsStringV(<<>>), JsStringV(<<"a">>), JsStringV(<<"a", LoneSurrogate, "b">>),
     JsBigIntV(BigIntFrom(0)), JsBigIntV(BigIntFrom(-5)), JsBigIntV(BigText),
     JsSymbol("s")}

Prop(k, v) == [key |-> k, value |-> v]
Foo == JsStringV(<<"F", "o", "o">>)

JsElems ==
    {JsInteger(5), JsStringV(<<"a">>), JsSymbol("s"), JsNull,
     JsOrdinary(<<Prop("x", JsInteger(1))>>), JsOrdinary(<<Prop("__variant", Foo)>>),
     JsSetObj(<<JsInteger(1)>>), JsMapObj(<<>>), JsArrayObj(<<JsRational(3)>>)}

JsArrays == {JsArrayObj(vs) : vs \in SeqsUpTo(JsElems, MaxLen)}

JsSets == {JsSetObj(vs) : vs \in InjSeqsUpTo(JsElems, MaxLen)}

JsMapKeys == {JsStringV(<<"a">>), JsInteger(5), JsNull}
JsMapValues == {JsInteger(1), JsInteger(2), JsStringV(<<"a">>), JsSymbol("s")}

JsMaps ==
    {JsMapObj([i \in 1..Len(p[1]) |-> <<p[1][i], p[2][i]>>]) :
        p \in Zips(JsMapKeys, JsMapValues, MaxLen)}

PropertyKeys == {"a", "b", "__variant"}

JsObjects ==
    {JsOrdinary([i \in 1..Len(p[1]) |-> Prop(p[1][i], p[2][i])]) :
        p \in Zips(PropertyKeys, JsElems \cup {JsUndefined, Foo}, MaxLen)}

JsInputs == JsPrimitives \cup JsArrays \cup JsSets \cup JsMaps \cup JsObjects

(***************************************************************************)
(* The calls.  A top-level call is one step, except the three loops whose  *)
(* turns are followed one by one: reflect_array_to_js_array, and the       *)
(* `while let` loops of js_set_to_reflect and js_map_to_reflect.           *)
(*   pc      ready: the call of `op` on `input` is about to be made        *)
(*           array_loop, set_loop, map_loop: inside that loop              *)
(*           done: the call returned `result`                              *)
(*           hung: the call is inside a nested loop that has no exit       *)
(*   origin  the host value whose outbound result is being converted back  *)
(*   pos     loop index / number of `next` calls made                      *)
(*   acc     js_array / dynamic_list / dynamic_map built so far            *)
(*   reads   the indices handed to Array::get                              *)
(***************************************************************************)
Init ==
    /\ pc = "ready"
    /\ \/ op = "outbound" /\ input \in HostInputs
       \/ op = "inbound" /\ input \in JsInputs
    /\ origin = Absent
    /\ pos = 0
    /\ acc = <<>>
    /\ reads = {}
    /\ result = Pending

IsInbound == op \in {"inbound", "roundtrip"}

IsClass(j, c) == j.tag = "Object" /\ j.class = c

Return(r) ==
    IF r.st = "NoReturn" THEN pc' = "hung" /\ result' = result
    ELSE pc' = "done" /\ result' = r

\* reflect_to_js_value on anything but an Array
CallOutbound ==
    /\ pc = "ready" /\ op = "outbound" /\ input.kind # "Array"
    /\ Return(reflect_to_js_value(input))
    /\ UNCHANGED <<op, input, origin, pos, acc, reads>>

\* reflect_to_js_value on an Array: JsArray::new, enter the loop
ArrayBegin ==
    /\ pc = "ready" /\ op = "outbound" /\ input.kind = "Array"
    /\ pc' = "array_loop" /\ pos' = 0 /\ acc' = <<>>
    /\ UNCHANGED <<op, input, origin, reads, result>>

\* one turn: item = array.get(i).unwrap(); push(reflect_to_js_value(item)?)
ArrayStep ==
    /\ pc = "array_loop" /\ ArrayContinue(input, pos)
    /\ reads' = reads \cup {pos}
    /\ LET r == ArrayBody(input, pos)
       IN  IF r.st = "Ok"
           THEN pc' = pc /\ pos' = pos + 1 /\ acc' = Append(acc, r.val) /\ result' = result
           ELSE Return(r) /\ UNCHANGED <<pos, acc>>
    /\ UNCHANGED <<op, input, origin>>

\* the range is exhausted: Ok(js_array.into())
ArrayReturn ==
    /\ pc = "array_loop" /\ ~ArrayContinue(input, pos)
    /\ Return(Ok(JsArrayObj(acc)))
    /\ UNCHANGED <<op, input, origin, pos, acc, reads>>

\* js_value_to_reflect on anything but a Set or a Map object
CallInbound ==
    /\ pc = "ready" /\ IsInbound
    /\ ~IsClass(input, "Set") /\ ~IsClass(input, "Map")
    /\ Return(js_value_to_reflect(input))
    /\ UNCHANGED <<op, input, origin, pos, acc, reads>>

\* js_set_to_reflect: DynamicList::default(), set.values(ctx)?
SetBegin ==
    /\ pc = "ready" /\ IsInbound /\ IsClass(input, "Set")
    /\ pc' = "set_loop" /\ pos' = 0 /\ acc' = <<>>
    /\ UNCHANGED <<op, input, origin, reads, result>>

\* one turn of `while let value = values.next(ctx)?`.  The pattern matches
\* every value, so there is no step that leaves the loop with Ok.
SetStep ==
    /\ pc = "set_loop" /\ pos < Len(input.members) + MaxExtra
    /\ LET r == SetBody(input, pos, acc)
       IN  IF r.st = "Ok"
           THEN pc' = pc /\ pos' = pos + 1 /\ acc' = r.val /\ result' = result
           ELSE Return(r) /\ UNCHANGED <<pos, acc>>
    /\ UNCHANGED <<op, input, origin, reads>>

\* js_map_to_reflect: DynamicMap::default(), map.entries(ctx)?
MapBegin ==
    /\ pc = "ready" /\ IsInbound /\ IsClass(input, "Map")
    /\ pc' = "map_loop" /\ pos' = 0 /\ acc' = <<>>
    /\ UNCHANGED <<op, input, origin, reads, result>>

\* one turn of `while let entry = entries.next(ctx)?`
MapStep ==
    /\ pc = "map_loop" /\ pos < Len(input.entries) + MaxExtra
    /\ LET r == MapBody(input, pos, acc)
       IN  IF r.st = "Ok"
           THEN pc' = pc /\ pos' = pos + 1 /\ acc' = r.val /\ result' = result
           ELSE Return(r) /\ UNCHANGED <<pos, acc>>
    /\ UNCHANGED <<op, input, origin, reads>>

\* the value an outbound call returned is handed to the inbound converter
RoundTrip ==
    /\ pc = "done" /\ op = "outbound" /\ result.st = "Ok"
    /\ pc' = "ready" /\ op' = "roundtrip"
    /\ origin' = input /\ input' = result.val
    /\ result' = Pending /\ pos' = 0 /\ acc' = <<>>
    /\ UNCHANGED reads

Next ==
    \/ CallOutbound
    \/ ArrayBegin
    \/ ArrayStep
    \/ ArrayReturn
    \/ CallInbound
    \/ SetBegin
    \/ SetStep
    \/ MapBegin
    \/ MapStep
    \/ RoundTrip

Spec == Init /\ [][Next]_vars

(***************************************************************************)
(* Properties.                                                             *)
(***************************************************************************)
Returned(o) == pc = "done" /\ op = o

Range(f) == {f[i] : i \in DOMAIN f}

\* n halves is an f32: its odd part fits the significand
RECURSIVE OddPart(_)
OddPart(a) == IF a # 0 /\ a % 2 = 0 THEN OddPart(a \div 2) ELSE a

IsF32(n) == OddPart(Abs(n)) < Pow2(F32Significand)

\* the integer a JsBigInt stands for
RECURSIVE MagValue(_)
MagValue(m) == IF m = <<>> THEN 0 ELSE 10 * MagValue(SubSeq(m, 1, Len(m) - 1)) + m[Len(m)]

BigIntValue(b) == IF b.neg THEN -MagValue(b.mag) ELSE MagValue(b.mag)

\* every element of a sequence of host values converts
AllConvert(values) == \A i \in 1..Len(values) : reflect_to_js_value(values[i]).st = "Ok"

FieldValues(fields) == [i \in 1..Len(fields) |-> fields[i].value]

\* C8: outbound conversion of a primitive never fails and follows the
\* coercion table: bool -> Boolean; i8, i16, i32, u8, u16 -> Integer of the
\* same value; i64, isize, u32, u64, usize -> BigInt of the same value;
\* f32, f64 -> Rational; String, &str -> String; anything else -> Null.
C8_CoercionTable ==
    (Returned("outbound") /\ input.kind = "Value") =>
        /\ result.st = "Ok"
        /\ LET ty == input.ty
               j == result.val
           IN  CASE ty = "bool" -> j = JsBoolean(input.b)
                 [] ty \in {"i8", "i16", "i32", "u8", "u16"} -> j = JsInteger(input.n)
                 [] ty \in {"i64", "isize", "u32", "u64", "usize"} ->
                        /\ j.tag = "BigInt"
                        /\ BigIntValue(j.big) = input.n
                        /\ (j.big.neg => input.n < 0)
                 [] ty \in {"f32", "f64"} -> j = JsRational(input.n)
                 [] ty \in {"String", "str"} -> j = JsStringV(input.s)
                 [] OTHER -> j = JsNull

C8_Witness ==
    /\ Returned("outbound") /\ input.kind = "Value" /\ input.ty = "i64" /\ input.n < 0
    /\ result.st = "Ok" /\ result.val.tag = "BigInt"

\* C10 as claimed: a host Map of N entries with pairwise distinct keys
\* becomes a scripting Map of exactly N entries, in source order, also when
\* the keys are primitives outside the coercion table.
C10_MapKeepsEveryEntry ==
    (Returned("outbound") /\ input.kind = "Map" /\ result.st = "Ok") =>
        /\ Len(result.val.entries) = Len(input.entries)
        /\ \A i \in 1..Len(input.entries) :
               Ok(result.val.entries[i][2]) = reflect_to_js_value(input.entries[i][2])

IsStringIntMap(m) ==
    /\ m.kind = "Map"
    /\ \A i \in 1..Len(m.entries) :
           /\ m.entries[i][1].kind = "Value" /\ m.entries[i][1].ty = "String"
           /\ m.entries[i][2].kind = "Value" /\ m.entries[i][2].ty = "i32"

\* C1 as claimed: a host map from strings to integers, converted outbound
\* and back inbound, comes back as a dynamic map with the same entries in
\* the same order, each value in f32 form.
C1_MapRoundTrip ==
    (op = "roundtrip" /\ pc \in {"done", "hung"} /\ IsStringIntMap(origin)
        /\ Len(origin.entries) >= 2) =>
        /\ pc = "done"
        /\ result.st = "Ok"
        /\ result.val.kind = "Map"
        /\ Len(result.val.entries) = Len(origin.entries)
        /\ \A i \in 1..Len(origin.entries) :
               /\ result.val.entries[i][1] = origin.entries[i][1]
               /\ result.val.entries[i][2] = NumV("f32", as_f32(2 * origin.entries[i][2].n))

\* C2 as claimed: the loop over a Set's values iterator is left once the N
\* members are consumed, with a list of those N members, and the loop over
\* a Map's entries iterator once the entries are exhausted: neither list
\* ever holds more than the collection had.
C2_LoopsEndWithTheIterator ==
    /\ (pc = "set_loop" => Len(acc) <= Len(input.members))
    /\ (pc = "map_loop" => Len(acc) <= Len(input.entries))

CarriesVariant(j) ==
    IsClass(j, "Ordinary") /\ ~is_null_or_undefined(js_object_get(j, "__variant"))

\* C3 as claimed: inbound conversion of a plain object with a non-null
\* `__variant` property fails with "Enums are not supported", whatever its
\* other properties are.
C3_VariantRejected ==
    (op = "inbound" /\ pc \in {"done", "hung"} /\ CarriesVariant(input)) =>
        (pc = "done" /\ result = Err("Enums are not supported"))

StructObject(j, fields) ==
    /\ IsClass(j, "Ordinary")
    /\ Len(j.props) = Len(fields)
    /\ \A i \in 1..Len(fields) :
           /\ j.props[i].key = fields[i].name
           /\ Ok(j.props[i].value) = reflect_to_js_value(fields[i].value)

\* C6 as claimed: every Struct becomes a plain object with one property per
\* field, keyed by the field name, in declaration order, each value what
\* reflect_to_js_value gives for the field on its own.
C6_StructToObject ==
    (Returned("outbound") /\ input.kind = "Struct") =>
        (result.st = "Ok" /\ StructObject(result.val, input.fields))

\* C6 amended: that holds for every Struct whose fields all convert; a
\* Struct with a field whose conversion fails is not converted, the call
\* fails.
C6_StructToObject_Amended ==
    (Returned("outbound") /\ input.kind = "Struct") =>
        IF AllConvert(FieldValues(input.fields))
        THEN result.st = "Ok" /\ StructObject(result.val, input.fields)
        ELSE result.st = "Err"

C6_Witness ==
    /\ Returned("outbound") /\ input.kind = "Struct" /\ Len(input.fields) = 2
    /\ input.fields[1].value.kind = "Struct"
    /\ result.st = "Ok"

ArrayOf(j, items) ==
    /\ IsClass(j, "Array")
    /\ Len(j.items) = Len(items)
    /\ \A i \in 1..Len(items) : Ok(j.items[i]) = reflect_to_js_value(items[i])

ReadsInRange == (op = "outbound" /\ input.kind = "Array") => reads \subseteq 0..(Len(input.items) - 1)

\* C7 as claimed: every List or Array of length N becomes a scripting Array
\* of length N whose i-th element is the conversion of the i-th element,
\* and for an Array no index outside 0..N-1 is read.
C7_SequenceToArray ==
    /\ ReadsInRange
    /\ (Returned("outbound") /\ input.kind \in {"List", "Array"}) =>
           (result.st = "Ok" /\ ArrayOf(result.val, input.items))

\* C7 amended: that holds for every List or Array whose elements all
\* convert; one with an element whose conversion fails is not converted,
\* the call fails.  No index outside 0..N-1 is read in either case.
C7_SequenceToArray_Amended ==
    /\ ReadsInRange
    /\ (Returned("outbound") /\ input.kind \in {"List", "Array"}) =>
           IF AllConvert(input.items)
           THEN result.st = "Ok" /\ ArrayOf(result.val, input.items)
           ELSE result.st = "Err"

C7_Witness ==
    /\ Returned("outbound") /\ input.kind = "Array" /\ Len(input.items) = 2
    /\ input.items[2].kind = "List"
    /\ reads = {0, 1}
    /\ result.st = "Ok"

AllNamed(fields) == \A i \in 1..Len(fields) : fields[i].fname.some

EnumObject(j, e) ==
    /\ IsClass(j, "Ordinary")
    /\ Len(j.props) = Len(e.fields) + 1
    /\ \A i \in 1..Len(e.fields) :
           /\ j.props[i].key = e.fields[i].fname.val
           /\ Ok(j.props[i].value) = reflect_to_js_value(e.fields[i].value)
    /\ j.props[Len(e.fields) + 1] = [key |-> "__variant", value |-> JsStringV(e.variant)]

\* C4 as claimed: an Enum whose variant has only named fields becomes a
\* plain object with one property per field, in field order, followed by
\* `__variant` holding the variant name; an Enum with an unnamed field
\* fails with the missing-name error.
C4_EnumToObject ==
    (Returned("outbound") /\ input.kind = "Enum") =>
        IF AllNamed(input.fields)
        THEN result.st = "Ok" /\ EnumObject(result.val, input)
        ELSE result = Err("Could not read field name")

NoReservedName(fields) == \A i \in 1..Len(fields) : fields[i].fname # Some("__variant")

\* C4 amended: that holds when, besides, no payload field is itself named
\* `__variant` and every payload field converts; with all fields named and
\* a field whose conversion fails, the call fails.
C4_EnumToObject_Amended ==
    (Returned("outbound") /\ input.kind = "Enum") =>
        IF ~AllNamed(input.fields) THEN result = Err("Could not read field name")
        ELSE IF ~AllConvert(FieldValues(input.fields)) THEN result.st = "Err"
        ELSE NoReservedName(input.fields) =>
                 (result.st = "Ok" /\ EnumObject(result.val, input))

C4_Witness ==
    /\ Returned("outbound") /\ input.kind = "Enum" /\ Len(input.fields) = 2
    /\ AllNamed(input.fields) /\ NoReservedName(input.fields)
    /\ result.st = "Ok" /\ Len(result.val.props) = 3

SameValue(r, v) ==
    /\ r.st = "Ok" /\ r.val.kind = "Value"
    /\ CASE v.ty = "bool" -> r.val.ty = "bool" /\ r.val.b = v.b
         [] v.ty = "String" -> r.val.ty = "String" /\ r.val.s = v.s
         [] OTHER -> r.val.ty = "f32" /\ r.val.n = v.n

IsRoundTripType(v) == v.kind = "Value" /\ v.ty \in {"bool", "String", "f32", "f64"}

\* C5 as claimed: a bool, String, f32 or f64 primitive converted outbound
\* and back inbound is a primitive holding the same value.
C5_PrimitiveRoundTrip ==
    (Returned("roundtrip") /\ IsRoundTripType(origin)) => SameValue(result, origin)

\* C5 amended: that holds for bool, String and f32, and for an f64 whose
\* value is representable as an f32.
C5_PrimitiveRoundTrip_Amended ==
    (Returned("roundtrip") /\ IsRoundTripType(origin)
        /\ (origin.ty = "f64" => IsF32(origin.n))) => SameValue(result, origin)

C5_Witness ==
    /\ Returned("roundtrip") /\ origin.kind = "Value" /\ origin.ty = "f64"
    /\ origin.n % 2 = 1 /\ SameValue(result, origin)

DecimalText(b) ==
    (IF b.neg THEN <<"-">> ELSE <<>>) \o
        [i \in 1..Len(b.mag) |->
            CHOOSE c \in {"0", "1", "2", "3", "4", "5", "6", "7", "8", "9"} :
                c = <<"0", "1", "2", "3", "4", "5", "6", "7", "8", "9">>[b.mag[i] + 1]]

\* x is an f32 and no f32 lies closer to n
NearestF32(x, n) ==
    LET d == Abs(x - n)
    IN  IsF32(x) /\ \A y \in (n - d + 1)..(n + d - 1) : ~IsF32(y)

\* the text of s with each unpaired surrogate written as its escape
RECURSIVE Escaped(_)
Escaped(s) ==
    IF s = <<>> THEN <<>>
    ELSE LET u == s[Len(s)]
         IN  Escaped(SubSeq(s, 1, Len(s) - 1)) \o
                 (IF u = LoneSurrogate THEN <<"\\", "u", "D", "8", "0", "0">> ELSE <<u>>)

ByTag(j, r, escaped) ==
    CASE j.tag \in {"Null", "Undefined"} -> r = Ok(Unit)
      [] j.tag = "Boolean" -> r = Ok(BoolV(j.b))
      [] j.tag = "Integer" ->
             r.st = "Ok" /\ r.val.kind = "Value" /\ r.val.ty = "f32" /\ NearestF32(r.val.n, 2 * j.n)
      [] j.tag = "Rational" ->
             r.st = "Ok" /\ r.val.kind = "Value" /\ r.val.ty = "f32" /\ NearestF32(r.val.n, j.n)
      [] j.tag = "String" -> r = Ok(TextV("String", IF escaped THEN Escaped(j.s) ELSE j.s))
      [] j.tag = "BigInt" -> r = Ok(TextV("String", DecimalText(j.big)))
      [] j.tag = "Symbol" -> r = Err("Symbol conversion not supported")

\* C9 as claimed: inbound conversion of a non-object value goes by its tag:
\* Null and Undefined give the unit value, Boolean the same boolean, Integer
\* and Rational an f32, String the same String, BigInt the String of its
\* decimal text, and Symbol alone fails, as an unsupported value.
C9_InboundByTag ==
    (Returned("inbound") /\ input.tag # "Object") => ByTag(input, result, FALSE)

\* C9 amended: a String yields the same String when it is well-formed; each
\* unpaired surrogate of it comes out as the six characters of its \uXXXX
\* escape.  The other tags are as claimed.
C9_InboundByTag_Amended ==
    /\ (Returned("inbound") /\ input.tag # "Object") => ByTag(input, result, TRUE)
    /\ (Returned("inbound") /\ input.tag = "String" /\ LoneSurrogate \notin Range(input.s)) =>
           result = Ok(TextV("String", input.s))

C9_Witness ==
    /\ Returned("inbound") /\ input.tag = "BigInt" /\ Len(input.big.mag) = 30
    /\ result = Ok(TextV("String", <<"1", "2", "3", "4", "5", "6", "7", "8", "9", "0",
                                     "1", "2", "3", "4", "5", "6", "7", "8", "9", "0",
                                     "1", "2", "3", "4", "5", "6", "7", "8", "9", "0">>))

====
